---- MODULE Spec2Model ----
(***************************************************************************)
(* Model of src/build.py of price-compare: the feed pipeline               *)
(*   raw rows -> normalize_rows -> group_by_product -> render_index /      *)
(*   render_product                                                        *)
(* and its value normalisers to_float and slugify.                         *)
(*                                                                         *)
(* A text (Python str) is a sequence of one-character strings.  A raw row  *)
(* (csv.DictReader row) is a function from the field names it carries to   *)
(* texts; a field the row lacks is outside its DOMAIN.  Amounts (Python    *)
(* float) are integers counting hundredths, or NaN.                        *)
(***************************************************************************)
EXTENDS Integers, Sequences, FiniteSets, TLC

VARIABLES
    pc,        \* position of build(): which loop runs, or "done"
    error,     \* "none", or the exception that ended the run
    rows,      \* build(): rows, the raw rows read from the feed
    pos,       \* index of the next element of the running loop
    norm,      \* normalize_rows: norm / build(): norm
    products,  \* group_by_product: products (dict slug -> product)
    order,     \* insertion order of the keys of products
    offers,    \* group_by_product: offers (defaultdict slug -> list)
    index,     \* render_index: the format arguments of each listing row
    pages,     \* render_product: slug -> the detail page's data
    text,      \* slugify driver: the input text
    slug1,     \* slugify driver: slugify(text)
    slug2      \* slugify driver: slugify(slugify(text))

vars == <<pc, error, rows, pos, norm, products, order, offers, index, pages,
          text, slug1, slug2>>

-----------------------------------------------------------------------------
(* Bounds *)

\* longest text handed to slugify by the slugify driver
MaxLen == 3

\* most raw rows in a feed
MaxRows == 3

-----------------------------------------------------------------------------
(* Characters and texts *)

LowerLetters ==
    {"a","b","c","d","e","f","g","h","i","j","k","l","m",
     "n","o","p","q","r","s","t","u","v","w","x","y","z"}

DigitChars == {"0","1","2","3","4","5","6","7","8","9"}

\* the characters the pattern [^a-z0-9\-] does NOT match
SafeChars == LowerLetters \cup DigitChars \cup {"-"}

\* characters str.strip() removes
Whitespace == {" ", "\t"}

\* the characters of the model's texts, in code-point order
CharOrder ==
    <<"\t", " ", "!", "\"", "+", ",", "-", ".", "/",
      "0","1","2","3","4","5","6","7","8","9", ":",
      "A", "B", "G", "N", "[", "]", "_",
      "a","b","c","d","e","f","g","h","i","j","k","l","m",
      "n","o","p","q","r","s","t","u","v","w","x","y","z", "{", "}">>

Ord(c) == CHOOSE k \in 1..Len(CharOrder) : CharOrder[k] = c

\* str.lower() on one character
LowerChar(c) ==
    CASE c = "A" -> "a"
      [] c = "B" -> "b"
      [] c = "G" -> "g"
      [] c = "N" -> "n"
      [] OTHER -> c

Lower(t) == [k \in 1..Len(t) |-> LowerChar(t[k])]

\* str.replace(a, b) for single characters a, b
ReplaceChar(t, a, b) == [k \in 1..Len(t) |-> IF t[k] = a THEN b ELSE t[k]]

\* str.strip(chars): drop the leading and trailing characters that are in S
StripChars(t, S) ==
    LET keep == {k \in 1..Len(t) : t[k] \notin S}
    IN  IF keep = {} THEN <<>>
        ELSE LET lo == CHOOSE k \in keep : \A m \in keep : k <= m
                 hi == CHOOSE k \in keep : \A m \in keep : k >= m
             IN  SubSeq(t, lo, hi)

\* str.strip()
Strip(t) == StripChars(t, Whitespace)

\* re.sub(r'[C]+', '-', t) for the character class C given by membership
\* in S (inS = TRUE) or by non-membership (inS = FALSE): every maximal run
\* of matching characters becomes one hyphen
SubRuns(t, S, inS) ==
    LET hit(k) == (t[k] \in S) = inS
        out[k \in 0..Len(t)] ==
            IF k = 0 THEN <<>>
            ELSE IF ~hit(k) THEN Append(out[k-1], t[k])
            ELSE IF k > 1 /\ hit(k-1) THEN out[k-1]
            ELSE Append(out[k-1], "-")
    IN  out[Len(t)]

\* the fallback token of slugify
ProductToken == <<"p","r","o","d","u","c","t">>

\* a mutant of slugify: the hyphens at the ends are not trimmed
slugify_NoTrim(t) ==
    LET a == ReplaceChar(Lower(t), " ", "-")
        b == SubRuns(a, SafeChars, FALSE)
        c == SubRuns(b, {"-"}, TRUE)
    IN  IF c = <<>> THEN ProductToken ELSE c

\* slugify(text)
slugify(t) ==
    LET a == ReplaceChar(Lower(t), " ", "-")
        b == SubRuns(a, SafeChars, FALSE)
        c == StripChars(SubRuns(b, {"-"}, TRUE), {"-"})
    IN  IF c = <<>> THEN ProductToken ELSE c

-----------------------------------------------------------------------------
(* Amounts: to_float and the "{:.2f}" format *)

\* hundredths per unit: amounts carry two decimal places
Scale == 100

NaN == [nan |-> TRUE, v |-> 0]

Num(n) == [nan |-> FALSE, v |-> n]

\* a + b on floats
Add(a, b) == IF a.nan \/ b.nan THEN NaN ELSE Num(a.v + b.v)

\* a < b and a > b on floats: every comparison with NaN is false
Lt(a, b) == ~a.nan /\ ~b.nan /\ a.v < b.v

Gt(a, b) == Lt(b, a)

DigitVal(c) == Ord(c) - Ord("0")

RECURSIVE DigitsVal(_)
DigitsVal(t) ==
    IF t = <<>> THEN 0
    ELSE 10 * DigitsVal(SubSeq(t, 1, Len(t) - 1)) + DigitVal(t[Len(t)])

IsDigits(t) == \A k \in 1..Len(t) : t[k] \in DigitChars

\* float(t) for a stripped text t of digits, signs, ".", and letters:
\* [sign] (digits [. digits] | . digits | nan); raises otherwise
\* (ok = FALSE).  Decimal places beyond the second are below the model's
\* resolution and are cut.
ParseFloat(t) ==
    LET signed == t # <<>> /\ t[1] \in {"-", "+"}
        body   == IF signed THEN SubSeq(t, 2, Len(t)) ELSE t
        sgn    == IF signed /\ t[1] = "-" THEN -1 ELSE 1
        dots   == {k \in 1..Len(body) : body[k] = "."}
        dot    == IF dots = {} THEN Len(body) + 1 ELSE CHOOSE k \in dots : TRUE
        ip     == SubSeq(body, 1, dot - 1)
        fp     == SubSeq(body, dot + 1, Len(body))
        fp2    == SubSeq(fp \o <<"0", "0">>, 1, 2)
    IN  IF Lower(body) = <<"n", "a", "n">> THEN [ok |-> TRUE, val |-> NaN]
        ELSE IF /\ Cardinality(dots) <= 1
                /\ IsDigits(ip) /\ IsDigits(fp)
                /\ Len(ip) + Len(fp) >= 1
             THEN [ok |-> TRUE,
                   val |-> Num(sgn * (Scale * DigitsVal(ip) + DigitsVal(fp2)))]
             ELSE [ok |-> FALSE, val |-> Num(0)]

\* to_float(x)
to_float(x) ==
    LET p == ParseFloat(Strip(ReplaceChar(x, ",", ".")))
    IN  IF p.ok THEN p.val ELSE Num(0)

DigitChar(d) == CharOrder[Ord("0") + d]

RECURSIVE Digits(_)
\* str(n) for a natural number n
Digits(n) ==
    IF n < 10 THEN <<DigitChar(n)>>
    ELSE Append(Digits(n \div 10), DigitChar(n % 10))

\* "{:.2f}".format(a)
Fmt2(a) ==
    IF a.nan THEN <<"n", "a", "n">>
    ELSE LET m == IF a.v < 0 THEN -a.v ELSE a.v
         IN  (IF a.v < 0 THEN <<"-">> ELSE <<>>)
             \o Digits(m \div Scale)
             \o <<".", DigitChar((m % Scale) \div 10), DigitChar(m % 10)>>

-----------------------------------------------------------------------------
(* json.loads, for texts over { } [ ] " : , and the digits and letters:    *)
(* objects, arrays, strings and natural numbers, without inner whitespace. *)
(* A parsed value is kept as its Python type and the text it came from.    *)

RECURSIVE JEnd(_, _), JMembers(_, _), JElems(_, _)

At(t, k) == IF k >= 1 /\ k <= Len(t) THEN t[k] ELSE ""

\* the index after the string literal that opens at i, 0 if it never closes
JString(t, i) ==
    LET close == {k \in (i+1)..Len(t) : t[k] = "\""}
    IN  IF close = {} \/ \E k \in (i+1)..Len(t) : t[k] = "\t" THEN 0
        ELSE 1 + CHOOSE k \in close : \A m \in close : k <= m

\* the index after the number that starts at i (no leading zero)
JNumber(t, i) ==
    IF t[i] = "0" THEN i + 1
    ELSE CHOOSE e \in (i+1)..(Len(t)+1) :
            /\ \A k \in i..(e-1) : t[k] \in DigitChars
            /\ At(t, e) \notin DigitChars

\* the index after the JSON value that starts at i, 0 if there is none
JEnd(t, i) ==
    CASE At(t, i) = "{" ->
            IF At(t, i+1) = "}" THEN i + 2 ELSE JMembers(t, i + 1)
      [] At(t, i) = "[" ->
            IF At(t, i+1) = "]" THEN i + 2 ELSE JElems(t, i + 1)
      [] At(t, i) = "\"" -> JString(t, i)
      [] At(t, i) \in DigitChars -> JNumber(t, i)
      [] OTHER -> 0

\* "key": value {, "key": value} "}" from index i on
JMembers(t, i) ==
    IF At(t, i) # "\"" THEN 0
    ELSE LET j == JString(t, i)
         IN  IF j = 0 \/ At(t, j) # ":" THEN 0
             ELSE LET k == JEnd(t, j + 1)
                  IN  IF k = 0 THEN 0
                      ELSE IF At(t, k) = "," THEN JMembers(t, k + 1)
                      ELSE IF At(t, k) = "}" THEN k + 1
                      ELSE 0

\* value {, value} "]" from index i on
JElems(t, i) ==
    LET k == JEnd(t, i)
    IN  IF k = 0 THEN 0
        ELSE IF At(t, k) = "," THEN JElems(t, k + 1)
        ELSE IF At(t, k) = "]" THEN k + 1
        ELSE 0

JType(c) ==
    CASE c = "{" -> "dict"
      [] c = "[" -> "list"
      [] c = "\"" -> "str"
      [] OTHER -> "int"

EmptyDict == [type |-> "dict", src |-> <<"{", "}">>]

\* json.loads(t): the value, or ok = FALSE where it raises
JsonLoads(t) ==
    IF t # <<>> /\ JEnd(t, 1) = Len(t) + 1
    THEN [ok |-> TRUE, val |-> [type |-> JType(t[1]), src |-> t]]
    ELSE [ok |-> FALSE, val |-> EmptyDict]

\* bool(v) of a parsed value
Truthy(v) ==
    v.src \notin {<<"{", "}">>, <<"[", "]">>, <<"\"", "\"">>, <<"0">>}

-----------------------------------------------------------------------------
(* min, max and sorted, as CPython evaluates them with the "<" and ">" of  *)
(* the keys.  less[a][b] is keys[a] < keys[b].                             *)

\* position of min(seq, key=...): the first element no later one is below
RECURSIVE MinPosFrom(_, _, _)
MinPosFrom(keys, best, k) ==
    IF k > Len(keys) THEN best
    ELSE MinPosFrom(keys, IF Lt(keys[k], keys[best]) THEN k ELSE best, k + 1)

PyMinPos(keys) == MinPosFrom(keys, 1, 2)

\* max(values): the first element no later one is above
RECURSIVE MaxFrom(_, _, _)
MaxFrom(keys, best, k) ==
    IF k > Len(keys) THEN keys[best]
    ELSE MaxFrom(keys, IF Gt(keys[k], keys[best]) THEN k ELSE best, k + 1)

PyMax(keys) == MaxFrom(keys, 1, 2)

\* list.sort's count_run: the length of the leading run and whether it is
\* strictly descending
CountRun(less, n) ==
    IF n < 2 THEN [len |-> n, desc |-> FALSE]
    ELSE LET desc == less[2][1]
             ok(m) == \A k \in 3..m : less[k][k-1] = desc
         IN  [len  |-> CHOOSE m \in 2..n :
                          ok(m) /\ \A m2 \in 2..n : ok(m2) => m2 <= m,
              desc |-> desc]

\* list.sort's binarysort: where pivot goes among perm[1..start-1]
RECURSIVE BinSearch(_, _, _, _, _)
BinSearch(less, perm, pivot, l, r) ==
    IF l >= r THEN l
    ELSE LET p == l + ((r - l) \div 2)
         IN  IF less[pivot][perm[p]]
             THEN BinSearch(less, perm, pivot, l, p)
             ELSE BinSearch(less, perm, pivot, p + 1, r)

RECURSIVE BinarySort(_, _, _)
BinarySort(less, perm, start) ==
    IF start > Len(perm) THEN perm
    ELSE LET pivot == perm[start]
             l     == BinSearch(less, perm, pivot, 1, start)
         IN  BinarySort(less,
                        SubSeq(perm, 1, l - 1) \o <<pivot>>
                            \o SubSeq(perm, l, start - 1)
                            \o SubSeq(perm, start + 1, Len(perm)),
                        start + 1)

\* sorted(...) of n < 64 elements: the positions of the elements in
\* sorted order (the leading run, reversed if descending, then binary
\* insertion of the rest)
PySortPerm(less, n) ==
    LET run  == CountRun(less, n)
        perm == [k \in 1..n |->
                    IF run.desc /\ k <= run.len THEN run.len + 1 - k ELSE k]
    IN  BinarySort(less, perm, run.len + 1)

\* s < t on str: by code points, a proper prefix first
TextLt(s, t) ==
    \E k \in 1..(Len(t)) :
        /\ \A m \in 1..(k-1) : m <= Len(s) /\ s[m] = t[m]
        /\ \/ k = Len(s) + 1
           \/ k <= Len(s) /\ Ord(s[k]) < Ord(t[k])

\* a < b on the key tuples (category, name) of render_index
KeyLt(a, b) == IF a[1] # b[1] THEN TextLt(a[1], b[1]) ELSE TextLt(a[2], b[2])

-----------------------------------------------------------------------------
(* normalize_rows *)

\* r.get(k, d)
Get(r, k, d) == IF k \in DOMAIN r THEN r[k] ELSE d

\* a or b on str
OrText(a, b) == IF a # <<>> THEN a ELSE b

\* (r.get("brand","")+" "+r.get("model","")).strip()
BrandModel(r) == Strip(Get(r, "brand", <<>>) \o <<" ">> \o Get(r, "model", <<>>))

\* datetime.utcnow().isoformat()+"Z": the time of the run, one token
Now == <<"N">>

RUB == <<"R", "U", "B">>

\* the "product_slug" entry of item
ResolveSlug(r) ==
    OrText(Strip(Get(r, "product_slug", <<>>)),
           slugify(OrText(BrandModel(r), Get(r, "product_name", <<>>))))

\* item
NormItem(r) ==
    [category     |-> Strip(Get(r, "category", <<>>)),
     product_slug |-> ResolveSlug(r),
     product_name |-> OrText(Strip(Get(r, "product_name", <<>>)), BrandModel(r)),
     brand        |-> Strip(Get(r, "brand", <<>>)),
     model        |-> Strip(Get(r, "model", <<>>)),
     gtin         |-> Strip(Get(r, "gtin", <<>>)),
     mpn          |-> Strip(Get(r, "mpn", <<>>)),
     specs_json   |-> Strip(Get(r, "specs_json", <<>>)),
     merchant     |-> Strip(Get(r, "merchant", <<>>)),
     price        |-> to_float(Get(r, "price", <<"0">>)),
     currency     |-> Strip(OrText(Get(r, "currency", <<>>), RUB)),
     shipping     |-> to_float(Get(r, "shipping", <<"0">>)),
     url          |-> Strip(Get(r, "url", <<>>)),
     availability |-> Strip(Get(r, "availability", <<>>)),
     updated_at   |-> OrText(Strip(Get(r, "updated_at", <<>>)), Now)]

\* a mutant of IsValid: the url is not required
IsValid_NoUrl(item) ==
    /\ item.product_slug # <<>>
    /\ item.merchant # <<>>
    /\ Gt(item.price, Num(0))

\* the condition under which item is appended to norm
IsValid(item) ==
    /\ item.product_slug # <<>>
    /\ item.merchant # <<>>
    /\ Gt(item.price, Num(0))
    /\ item.url # <<>>

NormalizeRow ==
    /\ pc = "normalize"
    /\ pos <= Len(rows)
    /\ LET item == NormItem(rows[pos])
       IN  norm' = IF IsValid(item) THEN Append(norm, item) ELSE norm
    /\ pos' = pos + 1
    /\ UNCHANGED <<pc, error, rows, products, order, offers, index, pages,
                   text, slug1, slug2>>

\* return norm; build() goes on to group_by_product
NormalizeDone ==
    /\ pc = "normalize"
    /\ pos > Len(rows)
    /\ pc' = "group"
    /\ pos' = 1
    /\ UNCHANGED <<error, rows, norm, products, order, offers, index, pages,
                   text, slug1, slug2>>

-----------------------------------------------------------------------------
(* group_by_product *)

\* json.loads(r.get("specs_json") or "{}"), {} where it raises
ParseSpecs(spec_text) ==
    LET p == JsonLoads(OrText(spec_text, <<"{", "}">>))
    IN  IF p.ok THEN p.val ELSE EmptyDict

ProductOf(r) ==
    [slug     |-> r.product_slug,
     category |-> r.category,
     name     |-> r.product_name,
     brand    |-> r.brand,
     model    |-> r.model,
     gtin     |-> r.gtin,
     mpn      |-> r.mpn,
     specs    |-> ParseSpecs(r.specs_json)]

\* a mutant of ProductsAfter: the latest record of a slug overwrites
ProductsAfter_LastWins(prods, r) ==
    (r.product_slug :> ProductOf(r)) @@ prods

\* products after the record r: created if its slug is new
ProductsAfter(prods, r) ==
    IF r.product_slug \in DOMAIN prods THEN prods
    ELSE (r.product_slug :> ProductOf(r)) @@ prods

OfferOf(r) ==
    [merchant     |-> r.merchant,
     availability |-> r.availability,
     price        |-> r.price,
     shipping     |-> r.shipping,
     currency     |-> r.currency,
     url          |-> r.url,
     total        |-> Add(r.price, r.shipping),
     updated_at   |-> r.updated_at]

\* offers[slug] of the defaultdict
OffersOf(offs, slug) == IF slug \in DOMAIN offs THEN offs[slug] ELSE <<>>

\* a mutant of OffersAfter: an offer of a merchant at a price the slug
\* already has is not added again
OffersAfter_Dedup(offs, r) ==
    LET old == OffersOf(offs, r.product_slug)
    IN  IF \E k \in 1..Len(old) :
              old[k].merchant = r.merchant /\ old[k].price = r.price
        THEN offs
        ELSE (r.product_slug :> Append(old, OfferOf(r))) @@ offs

\* a mutant of OffersAfter: only a repeated slug gets its offer appended
OffersAfter_SkipFirst(offs, r) ==
    IF r.product_slug \in DOMAIN offs
    THEN (r.product_slug :> Append(offs[r.product_slug], OfferOf(r))) @@ offs
    ELSE (r.product_slug :> <<>>) @@ offs

\* offers after the record r: one offer appended to the list of its slug
OffersAfter(offs, r) ==
    (r.product_slug :> Append(OffersOf(offs, r.product_slug), OfferOf(r))) @@ offs

GroupRow ==
    /\ pc = "group"
    /\ pos <= Len(norm)
    /\ LET r == norm[pos]
       IN  /\ products' = ProductsAfter(products, r)
           /\ order' = IF r.product_slug \in DOMAIN products THEN order
                       ELSE Append(order, r.product_slug)
           /\ offers' = OffersAfter(offers, r)
    /\ pos' = pos + 1
    /\ UNCHANGED <<pc, error, rows, norm, index, pages, text, slug1, slug2>>

\* return products, offers; build() goes on to render_index
GroupDone ==
    /\ pc = "group"
    /\ pos > Len(norm)
    /\ pc' = "render_index"
    /\ pos' = 1
    /\ UNCHANGED <<error, rows, norm, products, order, offers, index, pages,
                   text, slug1, slug2>>

-----------------------------------------------------------------------------
(* render_index and render_product *)

\* the replacement of an empty category or availability
EmDash == <<"EM DASH">>

Totals(offs) == [k \in 1..Len(offs) |-> offs[k].total]

\* the slugs of products sorted by (category, name)
IndexOrder ==
    LET n    == Len(order)
        key  == [k \in 1..n |-> <<products[order[k]].category,
                                  products[order[k]].name>>]
        less == [a \in 1..n |-> [b \in 1..n |-> KeyLt(key[a], key[b])]]
        perm == PySortPerm(less, n)
    IN  [k \in 1..n |-> order[perm[k]]]

\* the arguments of one listing row; min_pos is the position in
\* offers[slug] of the object min() returned
IndexRow(slug) ==
    LET p    == products[slug]
        offs == OffersOf(offers, slug)
        m    == PyMinPos(Totals(offs))
    IN  [cat     |-> OrText(p.category, EmDash),
         slug    |-> slug,
         name    |-> p.name,
         brand   |-> p.brand,
         model   |-> p.model,
         count   |-> Digits(Len(offs)),
         price   |-> Fmt2(offs[m].total),
         cur     |-> offs[m].currency,
         min_pos |-> m]

\* render_index: min() of an empty list raises ValueError
RenderIndex ==
    /\ pc = "render_index"
    /\ IF \E slug \in DOMAIN products : OffersOf(offers, slug) = <<>>
       THEN /\ error' = "ValueError"
            /\ pc' = "failed"
            /\ UNCHANGED index
       ELSE /\ index' = [k \in 1..Len(order) |-> IndexRow(IndexOrder[k])]
            /\ pc' = "render_product"
            /\ UNCHANGED error
    /\ UNCHANGED <<rows, pos, norm, products, order, offers, pages,
                   text, slug1, slug2>>

\* offs_sorted, as the positions in offs of its elements
SortedPos(offs) ==
    LET n    == Len(offs)
        less == [a \in 1..n |-> [b \in 1..n |-> Lt(offs[a].total, offs[b].total)]]
    IN  PySortPerm(less, n)

OfferRow(o) ==
    [merchant |-> o.merchant,
     avail    |-> OrText(o.availability, EmDash),
     price    |-> Fmt2(o.price),
     ship     |-> Fmt2(o.shipping),
     total    |-> Fmt2(o.total),
     cur      |-> o.currency,
     url      |-> o.url]

\* the page of one product: the offer rows and the AggregateOffer of ld;
\* sorted_pos is the position in offs of each element of offs_sorted
Page(slug) ==
    LET offs == OffersOf(offers, slug)
        sp   == SortedPos(offs)
        srt  == [k \in 1..Len(offs) |-> offs[sp[k]]]
    IN  [sorted_pos    |-> sp,
         offer_rows    |-> [k \in 1..Len(srt) |-> OfferRow(srt[k])],
         priceCurrency |-> srt[1].currency,
         lowPrice      |-> Fmt2(srt[1].total),
         highPrice     |-> Fmt2(PyMax(Totals(srt))),
         offerCount    |-> Digits(Len(srt))]

\* render_product of the next product: (specs or {}).items() raises
\* AttributeError on a true value that is no dict, offs_sorted[0]
\* IndexError on an empty list
RenderProduct ==
    /\ pc = "render_product"
    /\ pos <= Len(order)
    /\ LET slug  == order[pos]
           specs == products[slug].specs
       IN  IF Truthy(specs) /\ specs.type # "dict"
           THEN /\ error' = "AttributeError"
                /\ pc' = "failed"
                /\ UNCHANGED <<pages, pos>>
           ELSE IF OffersOf(offers, slug) = <<>>
           THEN /\ error' = "IndexError"
                /\ pc' = "failed"
                /\ UNCHANGED <<pages, pos>>
           ELSE /\ pages' = (slug :> Page(slug)) @@ pages
                /\ pos' = pos + 1
                /\ UNCHANGED <<pc, error>>
    /\ UNCHANGED <<rows, norm, products, order, offers, index,
                   text, slug1, slug2>>

\* every page is written; build() ends
Finish ==
    /\ pc = "render_product"
    /\ pos > Len(order)
    /\ pc' = "done"
    /\ UNCHANGED <<error, rows, pos, norm, products, order, offers, index,
                   pages, text, slug1, slug2>>

Next ==
    \/ NormalizeRow
    \/ NormalizeDone
    \/ GroupRow
    \/ GroupDone
    \/ RenderIndex
    \/ RenderProduct
    \/ Finish

-----------------------------------------------------------------------------
(* The feeds: the raw rows build() reads *)

\* marks a field the row does not carry
Absent == <<"ABSENT">>

\* the row that carries the fields of f that are not Absent
MkRow(f) == [k \in {x \in DOMAIN f : f[x] # Absent} |-> f[k]]

SlugIdle ==
    /\ text = <<>>
    /\ slug1 = <<>>
    /\ slug2 = <<>>

PipelineStart ==
    /\ pc = "normalize"
    /\ error = "none"
    /\ pos = 1
    /\ norm = <<>>
    /\ products = <<>>
    /\ order = <<>>
    /\ offers = <<>>
    /\ index = <<>>
    /\ pages = <<>>
    /\ SlugIdle

\* a complete offer of product "p"; the feed rows vary it
BaseRow ==
    [category     |-> <<"c">>,
     product_slug |-> <<"p">>,
     product_name |-> <<"a", "b">>,
     brand        |-> <<"a">>,
     model        |-> <<"G", "1">>,
     gtin         |-> <<"1">>,
     mpn          |-> Absent,
     specs_json   |-> <<"{", "\"", "k", "\"", ":", "1", "}">>,
     merchant     |-> <<"m">>,
     price        |-> <<"2">>,
     currency     |-> Absent,
     shipping     |-> <<"1">>,
     url          |-> <<"u">>,
     availability |-> Absent,
     updated_at   |-> Absent]

\* the rows a feed is made of: offers of the products "p", "q" and of one
\* named by brand and model only, with equal and different descriptions,
\* tied totals, a shipping text that is no number, specs that are no
\* mapping, and rows without price or merchant
FeedRows ==
    {MkRow(f) : f \in {
        BaseRow,
        [BaseRow EXCEPT !.category = <<"d">>, !.product_name = <<"b">>,
                        !.brand = <<"b">>, !.model = <<"1">>, !.gtin = <<"2">>,
                        !.mpn = <<"7">>, !.specs_json = <<"[", "1", "]">>,
                        !.merchant = <<"n">>, !.price = <<"3">>,
                        !.shipping = Absent],
        [BaseRow EXCEPT !.specs_json = <<"{">>, !.price = <<"1">>,
                        !.shipping = <<"n", "a", "n">>],
        [BaseRow EXCEPT !.specs_json = <<>>, !.merchant = <<"n">>,
                        !.price = <<"1">>, !.shipping = <<"0">>],
        [BaseRow EXCEPT !.product_slug = <<"q">>, !.category = <<>>,
                        !.product_name = <<"a">>, !.brand = <<"b">>,
                        !.specs_json = <<"5">>, !.price = <<"1", ",", "5">>,
                        !.shipping = <<"-", "1">>],
        [BaseRow EXCEPT !.product_slug = <<"q">>, !.price = <<>>],
        [BaseRow EXCEPT !.product_slug = Absent, !.brand = <<"B">>,
                        !.product_name = <<"x">>,
                        !.specs_json = <<"[", "]">>, !.price = <<"4">>],
        [BaseRow EXCEPT !.product_slug = <<"q">>, !.merchant = <<" ">>]}}

RECURSIVE FeedsUpTo(_)
FeedsUpTo(n) ==
    IF n = 0 THEN {<<>>}
    ELSE LET shorter == FeedsUpTo(n - 1)
         IN  shorter \cup {Append(f, r) : f \in shorter, r \in FeedRows}

Init ==
    /\ rows \in FeedsUpTo(MaxRows)
    /\ PipelineStart

Spec == Init /\ [][Next]_vars

\* one row in every combination of these values of the fields that decide
\* its identity and its validity
RowVariants ==
    {MkRow([BaseRow EXCEPT !.product_slug = s, !.brand = b, !.model = m,
                           !.product_name = n, !.merchant = me, !.url = u,
                           !.price = p, !.shipping = sh]) :
        s  \in {Absent, <<>>, <<" ", "s", " ">>, <<"A", " ", "b">>},
        b  \in {Absent, <<"B", "o">>, <<" ">>},
        m  \in {Absent, <<"G", "1">>, <<>>},
        n  \in {Absent, <<"a", "b">>, <<"!">>},
        me \in {Absent, <<" ">>, <<"m">>},
        u  \in {Absent, <<>>, <<"u">>},
        p  \in {Absent, <<>>, <<"0">>, <<"-", "1">>, <<"1", ",", "5">>,
                <<"x">>, <<" ", "2", " ">>, <<"n", "a", "n">>},
        sh \in {Absent, <<"-", "1">>, <<"1">>, <<"x">>}}

InitRow ==
    /\ \E r \in RowVariants : rows = <<r>>
    /\ PipelineStart

SpecRow == InitRow /\ [][Next]_vars

-----------------------------------------------------------------------------
(* The slugify driver: slugify applied to every text over SlugChars of at  *)
(* most MaxLen characters, and to its own result.                          *)

SlugChars == {"a", "B", "1", "-", " ", "!", "_"}

RECURSIVE TextsUpTo(_, _)
TextsUpTo(S, n) ==
    IF n = 0 THEN {<<>>}
    ELSE LET shorter == TextsUpTo(S, n - 1)
         IN  shorter \cup {Append(t, c) : t \in shorter, c \in S}

PipelineIdle ==
    /\ error = "none"
    /\ rows = <<>>
    /\ pos = 1
    /\ norm = <<>>
    /\ products = <<>>
    /\ order = <<>>
    /\ offers = <<>>
    /\ index = <<>>
    /\ pages = <<>>

InitSlug ==
    /\ pc = "slugify"
    /\ text \in TextsUpTo(SlugChars, MaxLen)
    /\ slug1 = <<>>
    /\ slug2 = <<>>
    /\ PipelineIdle

pipelineVars == <<error, rows, pos, norm, products, order, offers, index, pages>>

Slugify ==
    /\ pc = "slugify"
    /\ slug1' = slugify(text)
    /\ pc' = "reslugify"
    /\ UNCHANGED <<text, slug2, pipelineVars>>

Reslugify ==
    /\ pc = "reslugify"
    /\ slug2' = slugify(slug1)
    /\ pc' = "slugified"
    /\ UNCHANGED <<text, slug1, pipelineVars>>

NextSlug == Slugify \/ Reslugify

SpecSlug == InitSlug /\ [][NextSlug]_vars

-----------------------------------------------------------------------------
(* What the loops have done so far *)

\* the number of raw rows normalize_rows has been through
NormalizedCount == IF pc = "normalize" THEN pos - 1 ELSE Len(rows)

\* the number of records group_by_product has been through
GroupedCount ==
    IF pc = "normalize" THEN 0 ELSE IF pc = "group" THEN pos - 1 ELSE Len(norm)

\* the records of one slug that group_by_product has been through, in order
RecordsOf(slug) ==
    SelectSeq(SubSeq(norm, 1, GroupedCount), LAMBDA r : r.product_slug = slug)

GroupedSlugs == {norm[k].product_slug : k \in 1..GroupedCount}

IsPositive(a) == ~a.nan /\ a.v > 0

IsNonNegative(a) == ~a.nan /\ a.v >= 0

-----------------------------------------------------------------------------
(* C1 *)

\* the condition of the claim: slug, trimmed merchant and trimmed url
\* non-empty and the parsed price above zero
Keeps(r) ==
    /\ ResolveSlug(r) # <<>>
    /\ Strip(Get(r, "merchant", <<>>)) # <<>>
    /\ Strip(Get(r, "url", <<>>)) # <<>>
    /\ IsPositive(to_float(Get(r, "price", <<"0">>)))

KeptRows == SelectSeq(SubSeq(rows, 1, NormalizedCount), Keeps)

-----------------------------------------------------------------------------
(* C2 *)

\* the slug the claim gives a raw row
ClaimedSlug(r) ==
    LET explicit == Strip(Get(r, "product_slug", <<>>))
        brand    == Get(r, "brand", <<>>)
        model    == Get(r, "model", <<>>)
    IN  IF explicit # <<>> THEN explicit
        ELSE IF brand # <<>> /\ model # <<>>
             THEN slugify(brand \o <<" ">> \o model)
             ELSE slugify(Get(r, "product_name", <<>>))

\* C2: identity precedence: the trimmed explicit slug if non-empty; else
\* slugify(brand + " " + model) if brand and model are both present; else
\* (also with only one of brand and model) slugify(product_name), which is
\* "product" when that is empty.
C2_IdentityPrecedence ==
    \A k \in 1..Len(norm) :
        k <= Len(KeptRows) => norm[k].product_slug = ClaimedSlug(KeptRows[k])

-----------------------------------------------------------------------------
(* C7 *)

\* C7: every record normalize_rows accepts has a non-negative price and a
\* non-negative shipping, so that every offer's total is at least its price
\* and above zero.
C7_AmountsNonNegative ==
    /\ \A k \in 1..Len(norm) :
          IsNonNegative(norm[k].price) /\ IsNonNegative(norm[k].shipping)
    /\ \A slug \in DOMAIN offers : \A k \in 1..Len(offers[slug]) :
          LET o == offers[slug][k]
          IN  IsPositive(o.total) /\ ~o.price.nan /\ o.total.v >= o.price.v

-----------------------------------------------------------------------------
(* C8 *)

IsUrlSafe(s) == s # <<>> /\ \A k \in 1..Len(s) : s[k] \in SafeChars

\* C8: the slug of every accepted record, and so every key of the catalog,
\* is non-empty and made of [a-z0-9-] only, also when the row supplied it
\* in its product_slug field.
C8_SlugUrlSafe ==
    /\ \A k \in 1..Len(norm) : IsUrlSafe(norm[k].product_slug)
    /\ \A slug \in DOMAIN products : IsUrlSafe(slug)

-----------------------------------------------------------------------------
(* C3 *)

\* C3: first-seen-wins: the descriptive fields of every product are those
\* of the first record with its slug; no later record changes them.
C3_FirstSeenWins ==
    /\ DOMAIN products = GroupedSlugs
    /\ \A slug \in DOMAIN products :
          LET first == RecordsOf(slug)[1]
              p     == products[slug]
          IN  /\ p.slug = slug
              /\ p.category = first.category
              /\ p.name = first.product_name
              /\ p.brand = first.brand
              /\ p.model = first.model
              /\ p.gtin = first.gtin
              /\ p.mpn = first.mpn
              /\ p.specs = ParseSpecs(first.specs_json)

\* a later record of a slug differed in brand, name and specs from the
\* first, and the product has the first's
C3_Witness ==
    /\ pc = "render_index"
    /\ \E slug \in DOMAIN products :
          LET recs == RecordsOf(slug)
          IN  /\ Len(recs) >= 2
              /\ recs[2].brand # recs[1].brand
              /\ recs[2].product_name # recs[1].product_name
              /\ recs[2].specs_json # recs[1].specs_json
              /\ products[slug].brand = recs[1].brand

-----------------------------------------------------------------------------
(* C4 *)

RECURSIVE OfferTotal(_, _)
\* the number of offers of the slugs in S
OfferTotal(offs, S) ==
    IF S = {} THEN 0
    ELSE LET slug == CHOOSE x \in S : TRUE
         IN  Len(offs[slug]) + OfferTotal(offs, S \ {slug})

\* C4: each record yields exactly one offer: after n records the lists hold
\* n offers, those of a slug are its records in input order with
\* total = price + shipping, and records equal in merchant and price are
\* neither merged nor dropped.
C4_OneOfferPerRecord ==
    /\ OfferTotal(offers, DOMAIN offers) = GroupedCount
    /\ \A slug \in DOMAIN offers \cup GroupedSlugs :
          LET recs == RecordsOf(slug)
              offs == OffersOf(offers, slug)
          IN  /\ Len(offs) = Len(recs)
              /\ \A k \in 1..Len(offs) :
                    /\ offs[k].merchant = recs[k].merchant
                    /\ offs[k].availability = recs[k].availability
                    /\ offs[k].price = recs[k].price
                    /\ offs[k].shipping = recs[k].shipping
                    /\ offs[k].currency = recs[k].currency
                    /\ offs[k].url = recs[k].url
                    /\ offs[k].updated_at = recs[k].updated_at
                    /\ offs[k].total = Add(recs[k].price, recs[k].shipping)

\* three records were grouped, two of them of one slug with the same
\* merchant and price, and both are offers
C4_Witness ==
    /\ pc = "render_index"
    /\ Len(norm) = 3
    /\ \E slug \in DOMAIN offers : \E j, k \in 1..Len(offers[slug]) :
          /\ j < k
          /\ offers[slug][j].merchant = offers[slug][k].merchant
          /\ offers[slug][j].price = offers[slug][k].price

-----------------------------------------------------------------------------
(* C5 *)

\* C5: every product of the catalog has at least one offer (the slugs with
\* a product are the slugs with a non-empty offer list), so min() in
\* render_index and offs_sorted[0] in render_product never meet an empty
\* list.
C5_ProductHasOffer ==
    /\ DOMAIN products = {slug \in DOMAIN offers : offers[slug] # <<>>}
    /\ error \notin {"ValueError", "IndexError"}
    /\ \A k \in 1..Len(index) :
          index[k].min_pos \in 1..Len(OffersOf(offers, index[k].slug))
    /\ \A slug \in DOMAIN pages : pages[slug].sorted_pos # <<>>

\* a feed with a dropped row was rendered: two products, each with a
\* listing row and a page
C5_Witness ==
    /\ pc = "done"
    /\ Len(norm) < Len(rows)
    /\ Len(index) = 2
    /\ DOMAIN pages = DOMAIN products
    /\ Cardinality(DOMAIN products) = 2

-----------------------------------------------------------------------------
(* C6 *)

\* position m holds a minimum of the totals, the earliest one
IsFirstMin(tot, m) ==
    /\ \A j \in 1..Len(tot) : ~Lt(tot[j], tot[m])
    /\ \A j \in 1..(m - 1) : tot[j] # tot[m]

IsMax(tot, a) ==
    /\ \E j \in 1..Len(tot) : tot[j] = a
    /\ \A j \in 1..Len(tot) : ~Gt(tot[j], a)

\* C6: for every product, the offer the listing uses and the first offer of
\* the page's sorted list are the offer of minimum total, the earliest in
\* the product's offer list among equals; lowPrice is the minimum total,
\* highPrice the maximum, offerCount the number of offers.
C6_AggregatorCorrect ==
    /\ \A k \in 1..Len(index) :
          LET tot == Totals(offers[index[k].slug])
          IN  /\ IsFirstMin(tot, index[k].min_pos)
              /\ index[k].price = Fmt2(tot[index[k].min_pos])
              /\ index[k].count = Digits(Len(tot))
    /\ \A slug \in DOMAIN pages :
          LET tot  == Totals(offers[slug])
              page == pages[slug]
          IN  /\ IsFirstMin(tot, page.sorted_pos[1])
              /\ page.lowPrice = Fmt2(tot[page.sorted_pos[1]])
              /\ \E a \in {tot[j] : j \in 1..Len(tot)} :
                    IsMax(tot, a) /\ page.highPrice = Fmt2(a)
              /\ page.offerCount = Digits(Len(tot))

-----------------------------------------------------------------------------
(* C9 *)

\* the specs the claim gives a record
ClaimedSpecs(spec_text) ==
    LET p == JsonLoads(spec_text)
    IN  IF p.ok /\ p.val.type = "dict" THEN p.val ELSE EmptyDict

\* C9: the specs field never drops a row and never raises, and the
\* product's specs is always a mapping: the parsed one when the field holds
\* a well-formed mapping, the empty one for every other content (empty,
\* invalid, or well-formed but a list or a number).
C9_SpecsAlwaysMapping ==
    /\ error # "AttributeError"
    /\ \A slug \in DOMAIN products :
          /\ products[slug].specs.type = "dict"
          /\ products[slug].specs = ClaimedSpecs(RecordsOf(slug)[1].specs_json)

-----------------------------------------------------------------------------
(* C10 *)

IsCanonicalSlug(s) ==
    /\ s # <<>>
    /\ \A k \in 1..Len(s) : s[k] \in SafeChars
    /\ s[1] # "-"
    /\ s[Len(s)] # "-"
    /\ \A k \in 1..(Len(s) - 1) : ~(s[k] = "-" /\ s[k+1] = "-")

====
